---- MODULE Spec2Model ----
(***************************************************************************)
(* Model of src/src/Editor.tsx: the stroke store (lines), the mask         *)
(* rasterizer (drawLines / refreshCanvasMask), the render compositor       *)
(* (draw) and the request lifecycle driven by canvas.onmousedown, onPaint  *)
(* and the asynchronous onMouseUp handler.                                 *)
(*                                                                         *)
(* Scale: one model cell stands for a 20px square, so the brush sizes 2    *)
(* and 4 are the slider positions 40px and 80px.  The brush cursor state   *)
(* (coords, showBrush) and the download button do not touch the state      *)
(* modelled here and are left out.                                         *)
(***************************************************************************)
EXTENDS Integers, Sequences, FiniteSets, TLC

VARIABLES brushSize, imgState, dotCap, canvasW, canvasH, renderSrc, lines,
          isInpaintingLoading, showOriginal, moveAttached, upAttached,
          maskCanvas, shown, handlers, events, nSub, escaped, pressOutcome,
          alerted

vars == <<brushSize, imgState, dotCap, canvasW, canvasH, renderSrc, lines,
          isInpaintingLoading, showOriginal, moveAttached, upAttached,
          maskCanvas, shown, handlers, events, nSub, escaped, pressOutcome,
          alerted>>

----------------------------------------------------------------------------
(* Bounds *)

\* strokes the user may start in one session
MaxStrokes == 2
\* points one stroke may collect (the press point included)
MaxPts == 2
\* natural width and height of the loaded image, in cells
MaxW == 2
MaxH == 1
\* layout offset of the canvas inside the page (offsetLeft = offsetTop)
CanvasOffset == 1
\* width and height of the canvas the rasterizer is exercised on by itself
RasterW == 3
RasterH == 1
\* strokes and points per stroke of the histories the rasterizer is given
RasterStrokes == 2
RasterPts == 2

----------------------------------------------------------------------------
(* Program constants *)

\* useState(40): the initial brush size (40px = 2 cells)
DefaultBrush == 2
\* the slider positions the model uses (min 10, max 150 in the source)
BrushSizes == {2, 4}
\* Line.size is optional: undefined is falsy, as is 0
NoSize == 0
\* new Image(): src is the empty string until a result is loaded into it
NoSrc == 0
\* size of a canvas element before the image is loaded (HTML default
\* 300x150, at the scale of the model one cell)
DefaultCanvasW == 1
DefaultCanvasH == 1

EmptyLine == [size |-> NoSize, pts |-> <<>>]

ImageSizes == {<<0, 0>>, <<MaxW, MaxH>>}

----------------------------------------------------------------------------
(* Canvas 2D rasterization as drawLines uses it *)

Cells(w, h) == (0 .. w - 1) \X (0 .. h - 1)

Sq(a) == a * a

\* Is the centre of cell c within size/2 of the segment p-q?  Coordinates
\* are doubled so that cell centres (x + 1/2) are integers.
InReach(c, p, q, size) ==
  LET cx == 2 * c[1] + 1
      cy == 2 * c[2] + 1
      px == 2 * p[1]
      py == 2 * p[2]
      qx == 2 * q[1]
      qy == 2 * q[2]
      dx == qx - px
      dy == qy - py
      len2 == Sq(dx) + Sq(dy)
      ux == cx - px
      uy == cy - py
      t == ux * dx + uy * dy
  IN  IF len2 = 0 \/ t <= 0
        THEN Sq(ux) + Sq(uy) <= Sq(size)
        ELSE IF t >= len2
          THEN Sq(cx - qx) + Sq(cy - qy) <= Sq(size)
          ELSE (Sq(ux) + Sq(uy)) * len2 - Sq(t) <= Sq(size) * len2

\* Cells a stroke() of one subpath paints with round caps and joins.  A
\* subpath whose segments all have length zero is pruned by the canvas
\* standard but painted as a dot by some browsers: dot says which.
SubpathCover(w, h, sub, size, dot) ==
  LET segs == {i \in 1 .. Len(sub) - 1 : sub[i] # sub[i + 1]}
  IN  IF Len(sub) = 0 THEN {}
      ELSE IF segs = {}
        THEN IF dot THEN {c \in Cells(w, h) : InReach(c, sub[1], sub[1], size)}
                    ELSE {}
        ELSE {c \in Cells(w, h) :
                \E i \in segs : InReach(c, sub[i], sub[i + 1], size)}

\* ctx.stroke(): every subpath of the current path, at the current lineWidth
StrokePath(w, h, path, size, dot) ==
  UNION {SubpathCover(w, h, path[k], size, dot) : k \in 1 .. Len(path)}

\* drawLines without beginPath: the subpath joins those already in the path
LinePathNoBegin(path, line) == Append(path, <<line.pts[1]>> \o line.pts)

\* beginPath(); moveTo(pts[0]); pts.forEach(lineTo): the path holds exactly
\* one subpath, pts[0] followed by every point (pts[0] again first)
LinePath(path, line) == << <<line.pts[1]>> \o line.pts >>

\* lines.forEach of drawLines: st is [ink, path], the painted cells and the
\* context's current path; lines without points or size are skipped
RECURSIVE DrawLinesFrom(_, _, _, _, _, _)
DrawLinesFrom(st, ls, i, w, h, dot) ==
  IF i > Len(ls) THEN st
  ELSE IF Len(ls[i].pts) = 0 \/ ls[i].size = NoSize
    THEN DrawLinesFrom(st, ls, i + 1, w, h, dot)
    ELSE LET path == LinePath(st.path, ls[i])
             ink == st.ink \cup StrokePath(w, h, path, ls[i].size, dot)
         IN  DrawLinesFrom([ink |-> ink, path |-> path], ls, i + 1, w, h, dot)

\* drawLines(ctx, lines, color) on a canvas cv = [w, h, ink, color]
drawLines(cv, ls, color, dot) ==
  [cv EXCEPT !.ink = DrawLinesFrom([ink |-> cv.ink, path |-> <<>>],
                                   ls, 1, cv.w, cv.h, dot).ink,
             !.color = color]

BlankCanvas(w, h) == [w |-> w, h |-> h, ink |-> {}, color |-> "none"]

\* a rasterizer that draws the active line only, as draw() does
refreshCurrentLineOnly(mc, ls, w, h, dot) ==
  drawLines(BlankCanvas(w, h), <<ls[Len(ls)]>>, "white", dot)

\* a rasterizer that sizes the mask canvas without clearing it
refreshKeepsInk(mc, ls, w, h, dot) ==
  drawLines([mc EXCEPT !.w = w, !.h = h], ls, "white", dot)

\* refreshCanvasMask, after its two guards: assigning width and height
\* resizes and clears the mask canvas, then the whole history is drawn
refreshCanvasMask(mc, ls, w, h, dot) ==
  drawLines(BlankCanvas(w, h), ls, "white", dot)

\* the guards of refreshCanvasMask: the two throw statements
MaskThrows(w, h, ctxOk) == w = 0 \/ h = 0 \/ ~ctxOk

----------------------------------------------------------------------------
(* Render compositor *)

\* a compositor that never switches to render
BaseLayerAlwaysOriginal(src) == <<"original">>

\* the base layer draw() selects: render once it has a src, else original
BaseLayer(src) ==
  IF src # NoSrc THEN <<"result", src>> ELSE <<"original">>

\* draw(): clear, paint the base layer (original paints nothing before it
\* has loaded), then the active line only
draw(src, img, ls, w, h, dot) ==
  [base |-> IF src = NoSrc /\ img # "loaded" THEN <<"blank">>
                                              ELSE BaseLayer(src),
   overlay |-> drawLines(BlankCanvas(w, h), <<ls[Len(ls)]>>, "red", dot).ink]

----------------------------------------------------------------------------
(* State after the component has mounted: the 2D context and the firebase  *)
(* adapter are available, the mouse effect has installed its handlers.     *)

Init ==
  /\ brushSize = DefaultBrush
  /\ imgState = "unset"
  /\ dotCap \in BOOLEAN
  /\ canvasW = DefaultCanvasW
  /\ canvasH = DefaultCanvasH
  /\ renderSrc = NoSrc
  /\ lines = <<EmptyLine>>
  /\ isInpaintingLoading = FALSE
  /\ showOriginal = FALSE
  /\ moveAttached = FALSE
  /\ upAttached = FALSE
  /\ maskCanvas = BlankCanvas(DefaultCanvasW, DefaultCanvasH)
  /\ shown = [base |-> <<"blank">>, overlay |-> {}]
  /\ handlers = <<>>
  /\ events = <<>>
  /\ nSub = 0
  /\ escaped = FALSE
  /\ pressOutcome = "none"
  /\ alerted = "none"

\* page positions of pointer events that hit the canvas element
OverCanvas == {<<CanvasOffset + x, CanvasOffset + y>> :
                 x \in 0 .. canvasW - 1, y \in 0 .. canvasH - 1}

\* Coordinate mapper of onPaint: page position minus the canvas offset
ToCanvas(page) == <<page[1] - CanvasOffset, page[2] - CanvasOffset>>

\* a wrapper div that never disables pointer events
PointerEventsAlways == TRUE

\* the wrapper div is pointer-events-none while isInpaintingLoading
PointerEventsEnabled == ~isInpaintingLoading

\* original.src is set as soon as the image loader has assigned it
OriginalSrcSet == imgState # "unset"

\* an onPaint that pushes onto the first line of the history
PushPointFirst(ls, pt) == [ls EXCEPT ![1].pts = Append(ls[1].pts, pt)]

\* currLine.pts.push(...) of onPaint
PushPoint(ls, pt) ==
  [ls EXCEPT ![Len(ls)].pts = Append(ls[Len(ls)].pts, pt)]

\* a press handler that leaves the size of the line unset
SetSizeNever(ls, size) == ls

\* currLine.size = brushSize of canvas.onmousedown
SetSize(ls, size) == [ls EXCEPT ![Len(ls)].size = size]

----------------------------------------------------------------------------
(* Image loader *)

\* useImage assigns original.src; the image starts loading
SetSrc ==
  /\ imgState = "unset"
  /\ imgState' = "loading"
  /\ UNCHANGED <<brushSize, dotCap, canvasW, canvasH, renderSrc, lines,
                 isInpaintingLoading, showOriginal, moveAttached, upAttached,
                 maskCanvas, shown, handlers, events, nSub, escaped,
                 pressOutcome, alerted>>

\* the image has loaded: the effect of lines 83-96 sizes the canvas and
\* draws; the mouse effect re-runs (its cleanup detaches the listeners) when
\* original.width or original.height changed
ImageLoaded(sz) ==
  /\ imgState = "loading"
  /\ imgState' = "loaded"
  /\ events' = Append(events, "image_loaded")
  /\ canvasW' = sz[1]
  /\ canvasH' = sz[2]
  /\ shown' = draw(renderSrc, "loaded", lines, sz[1], sz[2], dotCap)
  /\ moveAttached' = (moveAttached /\ sz = <<0, 0>>)
  /\ upAttached' = (upAttached /\ sz = <<0, 0>>)
  /\ UNCHANGED <<brushSize, dotCap, renderSrc, lines, isInpaintingLoading,
                 showOriginal, maskCanvas, handlers, nSub, escaped,
                 pressOutcome, alerted>>

\* the image failed to decode: isOriginalLoaded stays false
ImageError ==
  /\ imgState = "loading"
  /\ imgState' = "error"
  /\ UNCHANGED <<brushSize, dotCap, canvasW, canvasH, renderSrc, lines,
                 isInpaintingLoading, showOriginal, moveAttached, upAttached,
                 maskCanvas, shown, handlers, events, nSub, escaped,
                 pressOutcome, alerted>>

----------------------------------------------------------------------------
(* Pointer input *)

\* canvas.onmousedown
OnMouseDown(page) ==
  IF ~OriginalSrcSet
    THEN /\ pressOutcome' = "nosrc"
         /\ UNCHANGED <<lines, moveAttached, upAttached, shown>>
    ELSE /\ Len(lines) <= MaxStrokes
         /\ Len(lines[Len(lines)].pts) < MaxPts
         /\ lines' = PushPoint(SetSize(lines, brushSize), ToCanvas(page))
         /\ moveAttached' = TRUE
         /\ upAttached' = TRUE
         /\ shown' = draw(renderSrc, imgState, lines', canvasW, canvasH, dotCap)
         /\ pressOutcome' = "started"

\* a mousedown whose position is over the canvas element
MouseDown(page) ==
  /\ page \in OverCanvas
  /\ IF PointerEventsEnabled
       THEN OnMouseDown(page)
       ELSE /\ pressOutcome' = "blocked"
            /\ UNCHANGED <<lines, moveAttached, upAttached, shown>>
  /\ UNCHANGED <<brushSize, imgState, dotCap, canvasW, canvasH, renderSrc,
                 isInpaintingLoading, showOriginal, maskCanvas, handlers,
                 events, nSub, escaped, alerted>>

\* a mousemove over the canvas while onPaint is attached
MouseMove(page) ==
  /\ page \in OverCanvas
  /\ PointerEventsEnabled
  /\ moveAttached
  /\ Len(lines[Len(lines)].pts) < MaxPts
  /\ lines' = PushPoint(lines, ToCanvas(page))
  /\ shown' = draw(renderSrc, imgState, lines', canvasW, canvasH, dotCap)
  /\ UNCHANGED <<brushSize, imgState, dotCap, canvasW, canvasH, renderSrc,
                 isInpaintingLoading, showOriginal, moveAttached, upAttached,
                 maskCanvas, handlers, events, nSub, escaped, pressOutcome,
                 alerted>>

\* an onMouseUp that leaves its listeners attached
KeepListener(attached) == attached

\* removeEventListener of onMouseUp (lines 123-124)
RemoveListener(attached) == FALSE

\* an onMouseUp that detaches its listeners before it sets the lock
OnMouseUpSyncDetachFirst ==
  <<"detach", "lock", "rasterize", "log", "token">>

\* the side effects of onMouseUp up to its first await, in statement order:
\* setIsInpaintingLoading(true) (122), removeEventListener (123-124),
\* refreshCanvasMask() (125), logEvent('inpaint_start') (128),
\* getAppCheckToken() (129)
OnMouseUpSync ==
  <<"lock", "detach", "rasterize", "log", "token">>

\* the submission a release starts: the handler is suspended at the token
\* fetch; len0 and base0 record the history length and the base layer at
\* the release
NewHandler ==
  [id |-> nSub + 1, pc |-> "token", len0 |-> Len(lines),
   base0 |-> BaseLayer(renderSrc),
   mask |-> BlankCanvas(0, 0), res |-> NoSrc,
   token |-> "none", image |-> <<"none">>, did |-> OnMouseUpSync]

\* window mouseup while onMouseUp is attached: the synchronous part of
\* onMouseUp up to the first await.  ctxOk: whether getContext('2d') of the
\* mask canvas returned a context.
MouseUp(ctxOk) ==
  /\ upAttached
  /\ IF ~OriginalSrcSet
       THEN UNCHANGED <<isInpaintingLoading, moveAttached, upAttached,
                        maskCanvas, handlers, events, nSub, escaped,
                        alerted>>
       ELSE /\ isInpaintingLoading' = TRUE
            /\ alerted' = "none"
            /\ moveAttached' = RemoveListener(moveAttached)
            /\ upAttached' = RemoveListener(upAttached)
            /\ IF MaskThrows(canvasW, canvasH, ctxOk)
                 THEN /\ escaped' = TRUE
                      /\ maskCanvas' = IF canvasW = 0 \/ canvasH = 0
                                         THEN maskCanvas
                                         ELSE BlankCanvas(canvasW, canvasH)
                      /\ UNCHANGED <<handlers, events, nSub>>
                 ELSE /\ maskCanvas' = refreshCanvasMask(maskCanvas, lines,
                                         canvasW, canvasH, dotCap)
                      /\ events' = <<"inpaint_start">>
                      /\ handlers' = Append(handlers, NewHandler)
                      /\ nSub' = nSub + 1
                      /\ UNCHANGED escaped
  /\ UNCHANGED <<brushSize, imgState, dotCap, canvasW, canvasH, renderSrc,
                 lines, showOriginal, shown, pressOutcome>>

\* the slider changes the brush size: the mouse effect re-runs, its cleanup
\* detaches onPaint and onMouseUp
SetBrushSize(b) ==
  /\ b # brushSize
  /\ brushSize' = b
  /\ moveAttached' = FALSE
  /\ upAttached' = FALSE
  /\ UNCHANGED <<imgState, dotCap, canvasW, canvasH, renderSrc, lines,
                 isInpaintingLoading, showOriginal, maskCanvas, shown,
                 handlers, events, nSub, escaped, pressOutcome, alerted>>

\* the Original button is held or let go; it sits inside the wrapper div
SetShowOriginal(b) ==
  /\ PointerEventsEnabled
  /\ showOriginal # b
  /\ showOriginal' = b
  /\ UNCHANGED <<brushSize, imgState, dotCap, canvasW, canvasH, renderSrc,
                 lines, isInpaintingLoading, moveAttached, upAttached,
                 maskCanvas, shown, handlers, events, nSub, escaped,
                 pressOutcome, alerted>>

----------------------------------------------------------------------------
(* The asynchronous part of onMouseUp *)

RemoveAt(s, i) == SubSeq(s, 1, i - 1) \o SubSeq(s, i + 1, Len(s))

\* what the errors a submission may meet say (e.message)
Errors == {"token", "inpaint", "empty response", "decode"}

\* lines 149-151: push a new pending line, release the lock, draw
OnMouseUpEnd(i, src) ==
  /\ lines' = Append(lines, EmptyLine)
  /\ isInpaintingLoading' = FALSE
  /\ shown' = draw(src, imgState, lines', canvasW, canvasH, dotCap)
  /\ handlers' = RemoveAt(handlers, i)

\* a catch block that also resets render to its initial, empty state
OnMouseUpCatchResetsRender(i, src, err) ==
  /\ events' = Append(events, "inpaint_failed")
  /\ alerted' = err
  /\ renderSrc' = NoSrc
  /\ OnMouseUpEnd(i, NoSrc)

\* the catch block followed by lines 149-151; src is render.src as the
\* failed step left it, err the message of the error caught
OnMouseUpCatch(i, src, err) ==
  /\ events' = Append(events, "inpaint_failed")
  /\ alerted' = err
  /\ renderSrc' = src
  /\ OnMouseUpEnd(i, src)

\* an await that swallows the rejection of the token fetch
TokenNeverThrows(ok) == FALSE

\* await getAppCheckToken() (line 129) throws when the fetch is rejected
TokenThrows(ok) == ~ok

\* the image argument of a request that sends what the canvas shows
RequestImageIsBaseLayer(src) == BaseLayer(src)

\* the image argument of inpaint(file, ...) (line 130): the file prop, which
\* is the image original was loaded from
RequestImage(src) == <<"original">>

\* getAppCheckToken settles; unless the await throws, the mask canvas is
\* serialized and the inpainting service is called with the file, the mask
\* and the token
TokenResolve(i, ok) ==
  /\ i \in 1 .. Len(handlers)
  /\ handlers[i].pc = "token"
  /\ IF ~TokenThrows(ok)
       THEN /\ handlers' = [handlers EXCEPT
                              ![i].pc = "inpaint",
                              ![i].token = IF ok THEN "ok" ELSE "failed",
                              ![i].image = RequestImage(renderSrc),
                              ![i].mask = maskCanvas,
                              ![i].did = Append(handlers[i].did, "request")]
            /\ UNCHANGED <<lines, isInpaintingLoading, shown, events,
                           renderSrc, alerted>>
       ELSE OnMouseUpCatch(i, renderSrc, "token")
  /\ UNCHANGED <<brushSize, imgState, dotCap, canvasW, canvasH, showOriginal,
                 moveAttached, upAttached, maskCanvas, nSub, escaped,
                 pressOutcome>>

\* the value inpaint resolves with: the result of this submission, or a
\* falsy one
InpaintResult(i, r) == IF r = "ok" THEN handlers[i].id ELSE NoSrc

\* a handler that passes a falsy result on to loadImage
EmptyNeverThrows(res) == FALSE

\* if (!res) throw new Error('empty response') (lines 131-133)
EmptyThrows(res) == res = NoSrc

\* inpaint settles: r is "ok" (a result), "empty" (a falsy result) or
\* "reject"
InpaintResolve(i, r) ==
  /\ i \in 1 .. Len(handlers)
  /\ handlers[i].pc = "inpaint"
  /\ IF r = "reject"
       THEN OnMouseUpCatch(i, renderSrc, "inpaint")
       ELSE IF EmptyThrows(InpaintResult(i, r))
              THEN OnMouseUpCatch(i, renderSrc, "empty response")
              ELSE /\ handlers' = [handlers EXCEPT
                                     ![i].pc = "load",
                                     ![i].res = InpaintResult(i, r)]
                   /\ UNCHANGED <<lines, isInpaintingLoading, shown, events,
                                  renderSrc, alerted>>
  /\ UNCHANGED <<brushSize, imgState, dotCap, canvasW, canvasH, showOriginal,
                 moveAttached, upAttached, maskCanvas, nSub, escaped,
                 pressOutcome>>

\* loadImage(render, res): render shows the result once it is decoded and
\* is left as it was when decoding fails
loadImage(src, res, ok) == IF ok THEN res ELSE src

\* loadImage settles; on success inpaint_processed is logged
LoadImageResolve(i, ok) ==
  /\ i \in 1 .. Len(handlers)
  /\ handlers[i].pc = "load"
  /\ IF ok
       THEN /\ renderSrc' = loadImage(renderSrc, handlers[i].res, TRUE)
            /\ events' = Append(events, "inpaint_processed")
            /\ OnMouseUpEnd(i, renderSrc')
            /\ UNCHANGED alerted
       ELSE OnMouseUpCatch(i, loadImage(renderSrc, handlers[i].res, FALSE),
                           "decode")
  /\ UNCHANGED <<brushSize, imgState, dotCap, canvasW, canvasH, showOriginal,
                 moveAttached, upAttached, maskCanvas, nSub, escaped,
                 pressOutcome>>

----------------------------------------------------------------------------

PagePositions == (CanvasOffset .. CanvasOffset + MaxW - 1)
                   \X (CanvasOffset .. CanvasOffset + MaxH - 1)

Resolve ==
  \/ \E i \in 1 .. Len(handlers), ok \in BOOLEAN : TokenResolve(i, ok)
  \/ \E i \in 1 .. Len(handlers), r \in {"ok", "empty", "reject"} :
       InpaintResolve(i, r)
  \/ \E i \in 1 .. Len(handlers), ok \in BOOLEAN : LoadImageResolve(i, ok)

Next ==
  \/ SetSrc
  \/ \E sz \in ImageSizes : ImageLoaded(sz)
  \/ ImageError
  \/ \E page \in PagePositions : MouseDown(page)
  \/ \E page \in PagePositions : MouseMove(page)
  \/ \E ctxOk \in BOOLEAN : MouseUp(ctxOk)
  \/ \E b \in BrushSizes : SetBrushSize(b)
  \/ \E b \in BOOLEAN : SetShowOriginal(b)
  \/ Resolve

Spec == Init /\ [][Next]_vars

\* the token and inpainting collaborators and the image decoder eventually
\* answer
FairSpec == Spec /\ WF_vars(Resolve)

TypeOK ==
  /\ brushSize \in BrushSizes
  /\ imgState \in {"unset", "loading", "loaded", "error"}
  /\ isInpaintingLoading \in BOOLEAN
  /\ Len(lines) >= 1

----------------------------------------------------------------------------
(* Steps of a submission, told by what they leave behind *)

LastEvent(evs) == IF Len(evs) = 0 THEN "none" ELSE evs[Len(evs)]

\* this step ends the submission of handler i
Ends(i) ==
  /\ i \in 1 .. Len(handlers)
  /\ handlers' = RemoveAt(handlers, i)

\* ... after the token was fetched, a result returned and decoded
Succeeds(i) ==
  /\ Ends(i)
  /\ handlers[i].pc = "load"
  /\ events' = Append(events, "inpaint_processed")

\* ... in the catch block
Fails(i) ==
  /\ Ends(i)
  /\ events' = Append(events, "inpaint_failed")

----------------------------------------------------------------------------
(* C1: at most one inpainting request is in flight in every reachable      *)
(* state: no second submission starts before the first has resolved.       *)
C1_OneRequestInFlight == Len(handlers) <= 1

\* a request is pending at the inpainting service while a press was
\* swallowed and the brush size was changed
C1_Witness ==
  /\ Len(handlers) = 1
  /\ handlers[1].pc = "inpaint"
  /\ pressOutcome = "blocked"
  /\ brushSize # DefaultBrush

(* C2: the Session Lock is true exactly while a submission started by a    *)
(* release has not yet resolved, and false in every other state.           *)
C2_LockIffSubmitting == isInpaintingLoading <=> (Len(handlers) > 0)

(* C3: a pointer-press arriving while the Session Lock is true changes no  *)
(* stroke, attaches no listener and starts no submission.                  *)
C3_PressWhileLockedIsNoOp ==
  [][(isInpaintingLoading /\ \E page \in PagePositions : MouseDown(page))
       => /\ lines' = lines
          /\ moveAttached' = moveAttached
          /\ upAttached' = upAttached
          /\ handlers' = handlers
          /\ nSub' = nSub]_vars

\* a press arrived during a pending request and was swallowed
C3_Witness ==
  /\ isInpaintingLoading
  /\ Len(handlers) = 1
  /\ pressOutcome = "blocked"
  /\ ~moveAttached /\ ~upAttached

(* C4: a successful submission leaves the Stroke History one longer than   *)
(* at the release, ending in an empty pending stroke, the Base Layer equal *)
(* to the returned result (and drawn), and the Session Lock false.         *)
C4_SuccessOutcome ==
  [][\A i \in 1 .. Len(handlers) : Succeeds(i) =>
       /\ Len(lines') = handlers[i].len0 + 1
       /\ lines'[Len(lines')] = EmptyLine
       /\ BaseLayer(renderSrc') = <<"result", handlers[i].res>>
       /\ handlers[i].res # NoSrc
       /\ shown'.base = BaseLayer(renderSrc')
       /\ ~isInpaintingLoading']_vars

\* the second submission of a session has succeeded
C4_Witness ==
  /\ LastEvent(events) = "inpaint_processed"
  /\ Len(handlers) = 0
  /\ renderSrc = 2
  /\ Len(lines) = 3
  /\ lines[3] = EmptyLine
  /\ ~isInpaintingLoading

C6_SubmissionReachesIdle == isInpaintingLoading ~> ~isInpaintingLoading

(* C7: the Stroke History is never empty, never gets shorter, and every    *)
(* element other than the last stays as it is.                             *)
C7_HistoryOnlyGrows ==
  [][/\ Len(lines) >= 1
     /\ Len(lines') >= Len(lines)
     /\ \A k \in 1 .. Len(lines) - 1 : lines'[k] = lines[k]]_vars

\* two finalized strokes with points, followed by the pending one
C7_Witness ==
  /\ Len(lines) = 3
  /\ Len(lines[1].pts) = 2
  /\ Len(lines[2].pts) >= 1
  /\ lines[3] = EmptyLine

\* what one line alone paints on a canvas of the mask's size
LineAlone(line, mask) ==
  drawLines(BlankCanvas(mask.w, mask.h), <<line>>, "white", dotCap).ink

(* C8: the mask sent with a request covers every stroke of the session,    *)
(* those of earlier submissions included, not only the one just released.  *)
C8_MaskIsCumulative ==
  \A i \in 1 .. Len(handlers) :
    handlers[i].pc \in {"inpaint", "load"} =>
      /\ \A k \in 1 .. Len(lines) :
           LineAlone(lines[k], handlers[i].mask) \subseteq handlers[i].mask.ink
      /\ handlers[i].mask.color = "white"

\* the request of a second submission is out; the first stroke paints a
\* cell that the second alone does not, and the first submission had failed
C8_Witness ==
  /\ Len(handlers) = 1
  /\ handlers[1].pc = "inpaint"
  /\ Len(lines) = 2
  /\ renderSrc = NoSrc
  /\ ~(LineAlone(lines[1], handlers[1].mask)
         \subseteq LineAlone(lines[2], handlers[1].mask))
  /\ LineAlone(lines[2], handlers[1].mask) # {}

----------------------------------------------------------------------------
(* The mask rasterizer on its own: every history of Line values drawLines  *)
(* accepts, over every content an earlier rasterization may have left on   *)
(* the mask canvas.                                                        *)

Points == (0 .. RasterW - 1) \X (0 .. RasterH - 1)

PointSeqs == UNION {[1 .. n -> Points] : n \in 0 .. RasterPts}

LineValues == [size : {NoSize} \cup BrushSizes, pts : PointSeqs]

Histories == UNION {[1 .. n -> LineValues] : n \in 1 .. RasterStrokes}

\* the mask canvas as an earlier rasterization of one stroke along the right
\* end of the top edge has left it
UsedMaskCanvas(dot) ==
  refreshCanvasMask(BlankCanvas(DefaultCanvasW, DefaultCanvasH),
                    <<[size |-> DefaultBrush,
                       pts |-> << <<RasterW - 1, 0>>, <<RasterW, 0>> >>]>>,
                    RasterW, RasterH, dot)

RasterInit ==
  /\ brushSize = DefaultBrush
  /\ imgState = "loaded"
  /\ dotCap \in BOOLEAN
  /\ canvasW = RasterW
  /\ canvasH = RasterH
  /\ renderSrc = NoSrc
  /\ lines \in Histories
  /\ isInpaintingLoading = FALSE
  /\ showOriginal = FALSE
  /\ moveAttached = FALSE
  /\ upAttached = FALSE
  /\ maskCanvas = UsedMaskCanvas(dotCap)
  /\ shown = [base |-> <<"original">>, overlay |-> {}]
  /\ handlers = <<>>
  /\ events = <<>>
  /\ nSub = 0
  /\ escaped = FALSE
  /\ pressOutcome = "none"
  /\ alerted = "none"

\* refreshCanvasMask is invoked on the history
RasterRefresh ==
  /\ ~MaskThrows(canvasW, canvasH, TRUE)
  /\ maskCanvas' = refreshCanvasMask(maskCanvas, lines, canvasW, canvasH,
                                     dotCap)
  /\ UNCHANGED <<brushSize, imgState, dotCap, canvasW, canvasH, renderSrc,
                 lines, isInpaintingLoading, showOriginal, moveAttached,
                 upAttached, shown, handlers, events, nSub, escaped,
                 pressOutcome, alerted>>

\* two neighbouring strokes of the history change places
RasterSwap(k) ==
  /\ k \in 1 .. Len(lines) - 1
  /\ lines' = [lines EXCEPT ![k] = lines[k + 1], ![k + 1] = lines[k]]
  /\ UNCHANGED <<brushSize, imgState, dotCap, canvasW, canvasH, renderSrc,
                 isInpaintingLoading, showOriginal, moveAttached, upAttached,
                 maskCanvas, shown, handlers, events, nSub, escaped,
                 pressOutcome, alerted>>

RasterNext ==
  \/ RasterRefresh
  \/ \E k \in 1 .. RasterStrokes : RasterSwap(k)

RasterSpec == RasterInit /\ [][RasterNext]_vars

\* the cells the mask of history ls covers on the current canvas size
MaskOf(ls) ==
  refreshCanvasMask(BlankCanvas(DefaultCanvasW, DefaultCanvasH), ls,
                    canvasW, canvasH, dotCap).ink

Orderings(n) ==
  {f \in [1 .. n -> 1 .. n] : \A a, b \in 1 .. n : f[a] = f[b] => a = b}

(* C9: the rasterized mask covers exactly the union of what each stroke    *)
(* covers alone, whatever the order of the strokes; a stroke without       *)
(* points or without brush size contributes nothing.                       *)
C9_MaskIsUnionOfStrokes ==
  /\ MaskOf(lines) = UNION {MaskOf(<<lines[k]>>) : k \in 1 .. Len(lines)}
  /\ \A f \in Orderings(Len(lines)) :
       MaskOf([k \in 1 .. Len(lines) |-> lines[f[k]]]) = MaskOf(lines)
  /\ \A k \in 1 .. Len(lines) :
       (lines[k].pts = <<>> \/ lines[k].size = NoSize)
         => MaskOf(<<lines[k]>>) = {}

\* a narrow stroke followed by a wide one that covers more, rasterized
C9_Witness ==
  /\ Len(lines) = 2
  /\ lines[1].size = 2 /\ lines[2].size = 4
  /\ MaskOf(<<lines[1]>>) # {}
  /\ MaskOf(<<lines[1]>>) # MaskOf(<<lines[2]>>)
  /\ maskCanvas.ink = MaskOf(lines)
  /\ maskCanvas.color = "white"

(* C10: rasterizing twice in succession over an unchanged history gives    *)
(* the same mask, and the mask holds nothing an earlier rasterization left *)
(* behind.                                                                 *)
C10_RasterFromScratch ==
  [][RasterRefresh =>
       /\ refreshCanvasMask(maskCanvas', lines, canvasW, canvasH, dotCap)
            = maskCanvas'
       /\ maskCanvas' = refreshCanvasMask(BlankCanvas(canvasW, canvasH),
                                          lines, canvasW, canvasH, dotCap)
       /\ maskCanvas'.ink
            = UNION {MaskOf(<<lines[k]>>) : k \in 1 .. Len(lines)}]_vars

\* the rasterizer has run over a history that covers the first cell only, on
\* a mask canvas that held the coverage of another stroke
C10_Witness ==
  /\ maskCanvas.ink = {<<0, 0>>}
  /\ UsedMaskCanvas(dotCap).ink # {}
  /\ ~(UsedMaskCanvas(dotCap).ink \subseteq maskCanvas.ink)
  /\ maskCanvas.ink = MaskOf(lines)
  /\ maskCanvas.w = canvasW /\ maskCanvas.h = canvasH

----------------------------------------------------------------------------
(* C11: a pointer-press while the base image is not loaded never changes   *)
(* the Stroke History (length, points and brush size of the active         *)
(* stroke), attaches no listener and so never starts Drawing or leads to a *)
(* submission.                                                             *)
C11_PressBeforeLoadIsNoOp ==
  [][(imgState # "loaded" /\ \E page \in PagePositions : MouseDown(page))
       => /\ lines' = lines
          /\ moveAttached' = moveAttached
          /\ upAttached' = upAttached
          /\ handlers' = handlers
          /\ nSub' = nSub]_vars


(* C12: the brush size of a stroke is the configured brush size at the     *)
(* press that started it and stays fixed: once a stroke has a point, no    *)
(* step changes its brush size, whatever happens to the configured size.   *)
C12_StrokeSizeFixed ==
  [][\A k \in 1 .. Len(lines) :
       Len(lines[k].pts) >= 1 => lines'[k].size = lines[k].size]_vars


(* C13: if the token fetch of a submission fails, the inpainting service   *)
(* is not called in that submission: a handler waiting for the token       *)
(* either receives a token and issues the request with it, or goes         *)
(* straight to the failure transition; no request is ever out without a    *)
(* fetched token.                                                          *)
C13_TokenFailureSkipsInpaint ==
  [][\A i \in 1 .. Len(handlers) :
       /\ handlers[i].pc \in {"inpaint", "load"} => handlers[i].token = "ok"
       /\ handlers[i].pc = "token" =>
            \/ handlers' = handlers
            \/ /\ Len(handlers') = Len(handlers)
               /\ handlers'[i].pc = "inpaint"
               /\ handlers'[i].token = "ok"
            \/ /\ Fails(i)
               /\ alerted' = "token"
               /\ handlers[i].image = <<"none">>
               /\ renderSrc' = renderSrc
               /\ ~isInpaintingLoading']_vars

\* the token fetch of the second submission has failed: the failure was
\* reported right after inpaint_start, the first result is still shown
C13_Witness ==
  /\ alerted = "token"
  /\ events = <<"inpaint_start", "inpaint_failed">>
  /\ Len(handlers) = 0
  /\ nSub = 2
  /\ renderSrc = 1
  /\ ~isInpaintingLoading


(* C14: an empty (falsy) result returned by the inpainting service without *)
(* a transport error is a failed submission: it is never decoded into the  *)
(* Base Layer, an inpaint_failed event is recorded and no                  *)
(* inpaint_processed event is.                                             *)
C14_EmptyResultFails ==
  [][\A i \in 1 .. Len(handlers) :
       /\ handlers[i].pc = "load" => handlers[i].res # NoSrc
       /\ handlers[i].pc = "inpaint" =>
            \/ handlers' = handlers
            \/ /\ Len(handlers') = Len(handlers)
               /\ handlers'[i].pc = "load"
               /\ handlers'[i].res # NoSrc
            \/ /\ Fails(i)
               /\ alerted' \in {"empty response", "inpaint"}
               /\ renderSrc' = renderSrc
               /\ BaseLayer(renderSrc') = handlers[i].base0
               /\ \A k \in 1 .. Len(events') :
                    events'[k] # "inpaint_processed"]_vars

\* the second submission got an empty result: the failure is recorded, the
\* result of the first submission is still the base layer
C14_Witness ==
  /\ alerted = "empty response"
  /\ events = <<"inpaint_start", "inpaint_failed">>
  /\ Len(handlers) = 0
  /\ nSub = 2
  /\ renderSrc = 1
  /\ shown.base = <<"result", 1>>


----------------------------------------------------------------------------
(* The analytics collaborator failing: the same handlers, with a logEvent  *)
(* call that throws.  logEvent('inpaint_start') and                        *)
(* logEvent('inpaint_processed') are inside the try of line 126,           *)
(* logEvent('inpaint_failed') is inside its catch block.                   *)

\* an exception leaves the catch block: the handler's promise is rejected,
\* lines 146-151 are skipped
OnMouseUpEscapes(i) ==
  /\ handlers' = RemoveAt(handlers, i)
  /\ escaped' = TRUE
  /\ UNCHANGED <<lines, isInpaintingLoading, shown, alerted>>

\* a release whose logEvent('inpaint_start') throws: the catch block runs
\* before the handler has awaited anything; failOk tells whether
\* logEvent('inpaint_failed') returns
MouseUpLogThrows(failOk) ==
  /\ upAttached
  /\ OriginalSrcSet
  /\ ~MaskThrows(canvasW, canvasH, TRUE)
  /\ moveAttached' = RemoveListener(moveAttached)
  /\ upAttached' = RemoveListener(upAttached)
  /\ maskCanvas' = refreshCanvasMask(maskCanvas, lines, canvasW, canvasH,
                                     dotCap)
  /\ events' = <<"inpaint_start", "inpaint_failed">>
  /\ IF failOk
       THEN /\ alerted' = "logging"
            /\ lines' = Append(lines, EmptyLine)
            /\ isInpaintingLoading' = FALSE
            /\ shown' = draw(renderSrc, imgState, lines', canvasW, canvasH,
                             dotCap)
            /\ UNCHANGED escaped
       ELSE /\ alerted' = "none"
            /\ isInpaintingLoading' = TRUE
            /\ escaped' = TRUE
            /\ UNCHANGED <<lines, shown>>
  /\ UNCHANGED <<brushSize, imgState, dotCap, canvasW, canvasH, renderSrc,
                 showOriginal, handlers, nSub, pressOutcome>>

\* the result is decoded into render, then logEvent('inpaint_processed')
\* throws into the catch block
LoadImageLogThrows(i, failOk) ==
  /\ i \in 1 .. Len(handlers)
  /\ handlers[i].pc = "load"
  /\ renderSrc' = loadImage(renderSrc, handlers[i].res, TRUE)
  /\ events' = events \o <<"inpaint_processed", "inpaint_failed">>
  /\ IF failOk
       THEN /\ alerted' = "logging"
            /\ OnMouseUpEnd(i, renderSrc')
            /\ UNCHANGED escaped
       ELSE OnMouseUpEscapes(i)
  /\ UNCHANGED <<brushSize, imgState, dotCap, canvasW, canvasH, showOriginal,
                 moveAttached, upAttached, maskCanvas, nSub, pressOutcome>>

\* the awaited step of handler i fails (token, inpainting call, empty
\* result or decoding) and logEvent('inpaint_failed') throws
CatchLogThrows(i) ==
  /\ i \in 1 .. Len(handlers)
  /\ events' = Append(events, "inpaint_failed")
  /\ OnMouseUpEscapes(i)
  /\ UNCHANGED <<brushSize, imgState, dotCap, canvasW, canvasH, renderSrc,
                 showOriginal, moveAttached, upAttached, maskCanvas, nSub,
                 pressOutcome>>

LogThrows ==
  \/ \E failOk \in BOOLEAN : MouseUpLogThrows(failOk)
  \/ \E i \in 1 .. Len(handlers), failOk \in BOOLEAN :
       LoadImageLogThrows(i, failOk)
  \/ \E i \in 1 .. Len(handlers) : CatchLogThrows(i)

LogFailNext == Next \/ LogThrows

LogFailSpec == Init /\ [][LogFailNext]_vars

(* C15: a failing logEvent call never alters the state machine: every      *)
(* submission that ends releases the Session Lock and pushes the pending   *)
(* stroke, a submission whose result was decoded into the Base Layer ends  *)
(* as a success (inpaint_processed last, nothing alerted), and a release   *)
(* that logs inpaint_start goes on to fetch the token.                     *)
C15_LoggingNeverAlters ==
  [][/\ \A i \in 1 .. Len(handlers) :
          /\ Ends(i) => /\ ~isInpaintingLoading'
                        /\ Len(lines') = handlers[i].len0 + 1
          /\ (Ends(i) /\ handlers[i].pc = "load"
                /\ renderSrc' = handlers[i].res)
               => /\ LastEvent(events') = "inpaint_processed"
                  /\ alerted' = "none"
     /\ (Len(handlers) = 0 /\ events' # events /\ Len(events') >= 1
           /\ events'[1] = "inpaint_start" /\ Len(events') <= 2
           /\ LastEvent(events') # "image_loaded")
          => /\ Len(handlers') = 1
             /\ handlers'[1].pc = "token"]_vars


----------------------------------------------------------------------------
(* C16: the Display-Mode Toggle's activate and deactivate leave the Stroke *)
(* History, the Base Layer, the Session Lock and the controller state      *)
(* unchanged, and the one of them that changes the display mode is enabled *)
(* in every reachable state, also while the Session Lock is true.          *)
C16_ToggleFrameAndEnabled ==
  /\ [](ENABLED SetShowOriginal(~showOriginal))
  /\ [][(\E b \in BOOLEAN : SetShowOriginal(b))
          => /\ lines' = lines
             /\ renderSrc' = renderSrc
             /\ shown' = shown
             /\ isInpaintingLoading' = isInpaintingLoading
             /\ handlers' = handlers
             /\ moveAttached' = moveAttached
             /\ upAttached' = upAttached]_vars


(* C17: every inpainting request carries the originally loaded image as    *)
(* its image argument, also after earlier successful submissions have      *)
(* replaced the Base Layer: a result is never sent as the input image.     *)
C17_RequestSendsOriginal ==
  \A i \in 1 .. Len(handlers) :
    handlers[i].pc \in {"inpaint", "load"} =>
      /\ handlers[i].image = <<"original">>
      /\ handlers[i].image[1] # "result"

\* the request of the second submission is out while the canvas shows the
\* result of the first
C17_Witness ==
  /\ Len(handlers) = 1
  /\ handlers[1].pc = "inpaint"
  /\ handlers[1].id = 2
  /\ renderSrc = 1
  /\ handlers[1].base0 = <<"result", 1>>
  /\ handlers[1].image = <<"original">>


----------------------------------------------------------------------------
IsPrefix(s, t) == Len(s) <= Len(t) /\ SubSeq(t, 1, Len(s)) = s

\* the side effects the transition from Drawing to Submitting is told by
IsTransitionEffect(e) ==
  e \in {"detach", "lock", "rasterize", "token", "request"}

\* handler h has gone through the side effects in the given order, no point
\* was appended since its release, and the mask it sent is the rasterization
\* of the history ls
SubmissionInOrder(h, order, ls) ==
  /\ IsPrefix(SelectSeq(h.did, IsTransitionEffect), order)
  /\ Len(ls) = h.len0
  /\ h.pc \in {"inpaint", "load"} =>
       /\ SelectSeq(h.did, IsTransitionEffect) = order
       /\ h.mask = refreshCanvasMask(BlankCanvas(0, 0), ls, h.mask.w,
                                     h.mask.h, dotCap)

(* C18 as stated: on the transition from Drawing to Submitting the         *)
(* listeners are detached, then the Session Lock is set, then the mask is  *)
(* rasterized, the token fetched and the request issued; no step of a      *)
(* pending submission changes the history, and the mask sent is the        *)
(* rasterization of the history as it is while the request is out.         *)
C18_DetachThenLock ==
  [][\A i \in 1 .. Len(handlers') :
       /\ SubmissionInOrder(handlers'[i],
            <<"detach", "lock", "rasterize", "token", "request">>, lines')
       /\ (i <= Len(handlers) /\ handlers[i].id = handlers'[i].id)
            => lines' = lines]_vars

(* C18 as the code has it: the Session Lock is set first, then the         *)
(* listeners are detached, then the mask is rasterized, the token fetched  *)
(* and the request issued; no step of a pending submission changes the     *)
(* history, and the mask sent is the rasterization of the history as it is *)
(* while the request is out.                                               *)
C18_LockThenDetach ==
  [][\A i \in 1 .. Len(handlers') :
       /\ SubmissionInOrder(handlers'[i],
            <<"lock", "detach", "rasterize", "token", "request">>, lines')
       /\ (i <= Len(handlers) /\ handlers[i].id = handlers'[i].id)
            => lines' = lines]_vars

\* the request of the second submission is out, a press during it was
\* swallowed, and the mask sent covers both strokes
C18_Witness ==
  /\ Len(handlers) = 1
  /\ handlers[1].pc = "inpaint"
  /\ handlers[1].id = 2
  /\ handlers[1].did = <<"lock", "detach", "rasterize", "log", "token",
                         "request">>
  /\ pressOutcome = "blocked"
  /\ ~moveAttached /\ ~upAttached
  /\ isInpaintingLoading
  /\ handlers[1].mask.ink # {}
  /\ handlers[1].mask = maskCanvas


----------------------------------------------------------------------------
(* C19: whenever a pointer-press is accepted, the active stroke has no     *)
(* points yet: no accepted press writes a brush size onto, or adds a point *)
(* to, a stroke that already has points from an earlier press.             *)
C19_PressStartsEmptyStroke ==
  [][((\E page \in PagePositions : MouseDown(page))
        /\ PointerEventsEnabled /\ OriginalSrcSet)
       => /\ lines[Len(lines)].pts = <<>>
          /\ Len(lines'[Len(lines')].pts) = 1]_vars


(* C20: in every reachable state every stroke that has a point has its     *)
(* brush size set: the step that gives a stroke its first point is an      *)
(* accepted press, which sets the size to the configured brush size and    *)
(* appends the press position; every later point is appended to the active *)
(* stroke, whose size was set by that press.                               *)
C20_PointsImplySize ==
  [][/\ \A k \in 1 .. Len(lines') :
          Len(lines'[k].pts) >= 1 => lines'[k].size \in BrushSizes
     /\ \A k \in 1 .. Len(lines) :
          lines'[k].pts # lines[k].pts =>
            /\ k = Len(lines)
            /\ Len(lines') = Len(lines)
            /\ Len(lines'[k].pts) = Len(lines[k].pts) + 1
            /\ IF lines[k].pts = <<>>
                 THEN \E page \in PagePositions :
                        /\ MouseDown(page)
                        /\ lines'[k] = [size |-> brushSize,
                                        pts |-> <<ToCanvas(page)>>]
                 ELSE lines[k].size \in BrushSizes]_vars

\* the second stroke has got its second point from a move, after a first
\* stroke of another brush size was finalized
C20_Witness ==
  /\ Len(lines) = 2
  /\ Len(lines[1].pts) >= 1
  /\ Len(lines[2].pts) = 2
  /\ lines[2].pts[1] # lines[2].pts[2]
  /\ lines[1].size = 2
  /\ lines[2].size = 4
  /\ moveAttached

====
